---- MODULE Spec2Model ----
(***************************************************************************)
(* The LegalZen page controller of static/script.js as a state machine.    *)
(* One state is the module-level state of the script (currentDocument,     *)
(* currentSessionKey, isProcessing) together with the parts of the page    *)
(* the handlers read and write, the running executions of the two async    *)
(* handlers and the timers they have set.  One action is one task of the   *)
(* browser's event loop: a DOM event handler run to its first suspension,  *)
(* a timer callback, or the continuation of an async function after a      *)
(* fetch or a body read settles.                                           *)
(***************************************************************************)
EXTENDS Integers, Sequences, FiniteSets, TLC

\* null and undefined, for strings; NoFile for a File that is absent.
NULL == "null"
NoFile == [name |-> <<>>, type |-> "null"]

(* ------------------------------ bounds -------------------------------- *)

\* analyze submissions that are running or whose hideProgress timer is pending
MaxSubmissions == 2
\* exchanges in the Q&A history, and /ask requests in flight
MaxQuestions == 2
\* /demo requests in flight
MaxDemos == 1

(* ------------------------- text, as characters ------------------------ *)

\* A string is a tuple of one-character strings, so that split, pop,
\* toLowerCase and trim are computed and not assumed.
UpperToLower ==
    [c \in {"P", "D", "F", "T", "X", "O", "C"} |->
        CASE c = "P" -> "p" [] c = "D" -> "d" [] c = "F" -> "f" [] c = "T" -> "t"
          [] c = "X" -> "x" [] c = "O" -> "o" [] c = "C" -> "c"]

toLowerCase(s) ==
    [i \in 1..Len(s) |-> IF s[i] \in DOMAIN UpperToLower THEN UpperToLower[s[i]] ELSE s[i]]

RECURSIVE split(_, _)
split(s, sep) ==
    IF \A i \in 1..Len(s) : s[i] # sep
    THEN <<s>>
    ELSE LET i == CHOOSE k \in 1..Len(s) : s[k] = sep /\ \A j \in 1..(k - 1) : s[j] # sep
         IN  <<SubSeq(s, 1, i - 1)>> \o split(SubSeq(s, i + 1, Len(s)), sep)

pop(a) == a[Len(a)]

RECURSIVE trim(_)
trim(s) ==
    IF s = <<>> THEN s
    ELSE IF s[1] = " " THEN trim(Tail(s))
    ELSE IF s[Len(s)] = " " THEN trim(SubSeq(s, 1, Len(s) - 1))
    ELSE s

(* ------------------------------- files -------------------------------- *)

allowedTypes ==
    { "application/pdf",
      "application/msword",
      "application/vnd.openxmlformats-officedocument.wordprocessingml.document",
      "text/plain" }

allowedExtensions == { <<"p", "d", "f">>, <<"d", "o", "c">>, <<"d", "o", "c", "x">>, <<"t", "x", "t">> }

fileExtension(file) == toLowerCase(pop(split(file.name, ".")))

isValidFileType(file) ==
    file.type \in allowedTypes \/ fileExtension(file) \in allowedExtensions

\* The file names and MIME types offered to the page.
FileNames ==
    { <<"a", ".", "p", "d", "f">>,  <<"a", ".", "P", "D", "F">>,  <<"a", ".", "P", "d", "f">>,
      <<"a", ".", "d", "o", "c">>,  <<"a", ".", "D", "O", "C">>,
      <<"a", ".", "d", "o", "c", "x">>, <<"a", ".", "D", "o", "c", "X">>,
      <<"a", ".", "t", "x", "t">>,  <<"a", ".", "T", "X", "T">>,
      <<"a", ".", "p", "n", "g">>,  <<"a", ".", "p", "d">>, <<"a", ".", "p", "d", "f", "x">>,
      <<"p", "d", "f">>, <<"t", "x", "t">>, <<"d", "o", "c">>, <<"D", "O", "C", "X">>,
      <<"a">>, <<"p", "n", "g">>, <<"a", "p", "d", "f">>,
      <<".", "p", "d", "f">>, <<"a", ".">>, <<"p", "d", "f", ".">>,
      <<"a", ".", "t", "x", "t", ".", "p", "n", "g">>, <<"a", ".", "p", "n", "g", ".", "t", "x", "t">>,
      <<"p", "d", "f", ".", "p", "n", "g">>, <<"a", ".", "b", ".", "d", "o", "c">> }

FileTypes == allowedTypes \cup { "image/png", "" }

AllFiles == [name : FileNames, type : FileTypes]

\* The files offered in the page workflow: two valid ones and an invalid one.
contractPdf == [name |-> <<"a", ".", "p", "d", "f">>, type |-> "application/pdf"]
notesTxt    == [name |-> <<"a", ".", "T", "X", "T">>, type |-> ""]
imagePng    == [name |-> <<"a", ".", "p", "n", "g">>, type |-> "image/png"]

Files == { contractPdf, notesTxt, imagePng }

(* --------------------------- server replies --------------------------- *)

SessionKeys == { "sk1", "sk2" }

\* A clause without a title has title <<>>.
clauseTerm == [title |-> <<"Term">>, original |-> "O1", simplified |-> "Si1", explanation |-> NULL]
clauseFee  == [title |-> <<>>, original |-> "O2", simplified |-> "Si2", explanation |-> "E2"]

\* JSON bodies of a 2xx reply of POST / (and of GET /demo); an absent key is
\* NULL, and absent clauses are <<>> (line 272 treats them as an empty list).
OkBodies ==
    [session_key : SessionKeys \cup {NULL},
     summary     : {NULL, "S"},
     clauses     : {<<>>, <<clauseTerm, clauseFee>>}]

\* JSON bodies of a non-2xx reply: with an `error` field, or without one.
ErrBodies == { [error |-> "rate limited"], [error |-> NULL] }

\* The replies that make a handler throw: fetch is rejected ("network
\* error"), a 2xx reply ("ok") whose body is not JSON, and a non-2xx reply
\* ("not ok") whose body is JSON with or without an `error` field, or is not
\* JSON.
FailedReplies ==
    { [outcome |-> "network error", json |-> FALSE, error |-> NULL],
      [outcome |-> "ok", json |-> FALSE, error |-> NULL],
      [outcome |-> "not ok", json |-> FALSE, error |-> NULL] } \cup
    { [outcome |-> "not ok", json |-> TRUE, error |-> d.error] : d \in ErrBodies }

\* errorData of a non-2xx reply: its parsed body, or the stand-in of the
\* .catch() handler when the body is not JSON (lines 197 and 429).
errorData(reply) ==
    IF reply.json THEN [error |-> reply.error] ELSE [error |-> "Unknown error"]

\* Questions typed into the question box, and what /ask answers to a question.
QuestionTexts == { <<>>, <<" ">>, <<"q">>, <<" ", "q", " ">> }

AnswerTo(question) == <<"answer to", question>>

Thinking == <<"Thinking...">>

(* ------------------------------- state -------------------------------- *)

VARIABLES
    currentDocument,    \* the selected File, or NoFile
    currentSessionKey,  \* the session key for Q&A, or NULL
    isProcessing,       \* an analyze submission is past its guard
    submitDisabled,     \* submitBtn.disabled
    pointerEvents,      \* fileUploadArea.style.pointerEvents
    progressVisible,    \* progressContainer is displayed
    progressWidth,      \* progressFill.style.width, in percent
    selectedFileShown,  \* selectedFile is displayed
    successState,       \* fileUploadArea has class success-state
    errorState,         \* fileUploadArea has class error-state
    resultsVisible,     \* resultsSection is displayed
    summaryContent,     \* the rendered summary, or NULL
    clauseAccordion,    \* the rendered clause list
    activeHeaders,      \* indexes of the accordion headers with class active
    questionInput,      \* questionInput.value
    askDisabled,        \* askQuestion.disabled
    qaHistory,          \* the rendered exchanges, oldest first
    executions,         \* running executions of handleFormSubmission
    hideTimers,         \* pending timers set by hideProgress
    asks,               \* running executions of handleQuestionSubmit
    demos,              \* pending fetches of loadDemoDocument
    lastEvent,          \* the task the event loop ran last
    notifications       \* the notifications that task created

scriptVars  == <<currentDocument, currentSessionKey, isProcessing>>
formVars    == <<submitDisabled, pointerEvents, progressVisible, progressWidth>>
uploadVars  == <<selectedFileShown, successState, errorState>>
resultVars  == <<resultsVisible, summaryContent, clauseAccordion, activeHeaders>>
qaVars      == <<questionInput, askDisabled, qaHistory>>
flightVars  == <<executions, hideTimers, asks, demos>>

vars == <<scriptVars, formVars, uploadVars, resultVars, qaVars, flightVars,
          lastEvent, notifications>>

\* What the script itself initialises (the three module-level variables) and
\* what is in flight when the page has loaded: nothing.
InitScript ==
    /\ currentDocument = NoFile
    /\ currentSessionKey = NULL
    /\ isProcessing = FALSE
    /\ executions = {}
    /\ hideTimers = 0
    /\ asks = {}
    /\ demos = 0
    /\ lastEvent = <<"DOMContentLoaded">>
    /\ notifications = <<>>

\* The page as its markup delivers it: nothing selected, nothing rendered,
\* both buttons disabled.
InitPage ==
    /\ submitDisabled = TRUE
    /\ pointerEvents = "auto"
    /\ progressVisible = FALSE
    /\ progressWidth = 0
    /\ selectedFileShown = FALSE
    /\ successState = FALSE
    /\ errorState = FALSE
    /\ resultsVisible = FALSE
    /\ summaryContent = NULL
    /\ clauseAccordion = [items |-> <<>>, placeholder |-> FALSE]
    /\ activeHeaders = {}
    /\ questionInput = <<>>
    /\ askDisabled = TRUE
    /\ qaHistory = <<>>

Init == InitScript /\ InitPage

(* --------------------------- notifications ---------------------------- *)

showError(message) == notifications' = <<[kind |-> "error", text |-> message]>>

showSuccess(message) == notifications' = <<[kind |-> "success", text |-> message]>>

noNotification == notifications' = <<>>

InvalidTypeMessage == <<"Please select a valid file type: PDF, DOC, DOCX, or TXT">>

UploadFirstMessage == <<"Please upload and analyze a document first">>

(* ---------------------------- file upload ----------------------------- *)

displaySelectedFile(file) ==
    /\ selectedFileShown' = TRUE
    /\ successState' = TRUE
    /\ currentDocument' = file

enableSubmitButton == submitDisabled' = FALSE

disableSubmitButton == submitDisabled' = TRUE

clearSelectedFile_keepKey ==
    /\ selectedFileShown' = FALSE
    /\ successState' = FALSE
    /\ disableSubmitButton
    /\ currentDocument' = NoFile
    /\ currentSessionKey' = currentSessionKey
    /\ errorState' = FALSE

clearSelectedFile ==
    /\ selectedFileShown' = FALSE
    /\ successState' = FALSE
    /\ disableSubmitButton
    /\ currentDocument' = NoFile
    /\ currentSessionKey' = NULL
    /\ errorState' = FALSE

\* The change event of the file input; file is files[0], NoFile when the
\* selection is empty.
handleFileSelection(file) ==
    /\ lastEvent' = <<"change", file>>
    /\ IF file = NoFile
       THEN /\ noNotification
            /\ UNCHANGED <<scriptVars, submitDisabled, uploadVars>>
       ELSE IF isValidFileType(file)
       THEN /\ displaySelectedFile(file)
            /\ enableSubmitButton
            /\ noNotification
            /\ UNCHANGED <<currentSessionKey, isProcessing, errorState>>
       ELSE /\ showError(InvalidTypeMessage)
            /\ clearSelectedFile
            /\ UNCHANGED isProcessing
    /\ UNCHANGED <<pointerEvents, progressVisible, progressWidth, resultVars, qaVars, flightVars>>

\* The drop event on the upload area.  An element with pointer-events none
\* is not the target of a drop, so the handler runs only while the area
\* takes pointer events.
handleFileDrop(file) ==
    /\ pointerEvents = "auto"
    /\ lastEvent' = <<"drop", file>>
    /\ IF isProcessing \/ file = NoFile
       THEN /\ noNotification
            /\ UNCHANGED <<scriptVars, submitDisabled, uploadVars>>
       ELSE IF isValidFileType(file)
       THEN /\ displaySelectedFile(file)
            /\ enableSubmitButton
            /\ noNotification
            /\ UNCHANGED <<currentSessionKey, isProcessing, errorState>>
       ELSE /\ showError(InvalidTypeMessage)
            /\ UNCHANGED <<scriptVars, submitDisabled, uploadVars>>
    /\ UNCHANGED <<pointerEvents, progressVisible, progressWidth, resultVars, qaVars, flightVars>>

\* A click on the remove button.
RemoveFileClick ==
    /\ lastEvent' = <<"click", "removeFile">>
    /\ clearSelectedFile
    /\ noNotification
    /\ UNCHANGED <<isProcessing, pointerEvents, progressVisible, progressWidth,
                   resultVars, qaVars, flightVars>>

(* -------------------------- form submission --------------------------- *)

steps_short == << [progress |-> 15,  text |-> "Uploading document..."],
                  [progress |-> 35,  text |-> "Reading document content..."],
                  [progress |-> 55,  text |-> "Analyzing legal structure..."],
                  [progress |-> 75,  text |-> "Extracting key clauses..."],
                  [progress |-> 90,  text |-> "Generating explanations..."] >>

steps == << [progress |-> 15,  text |-> "Uploading document..."],
            [progress |-> 35,  text |-> "Reading document content..."],
            [progress |-> 55,  text |-> "Analyzing legal structure..."],
            [progress |-> 75,  text |-> "Extracting key clauses..."],
            [progress |-> 90,  text |-> "Generating explanations..."],
            [progress |-> 100, text |-> "Finalizing summary..."] >>

updateProgress(percentage) == progressWidth' = percentage

showProgress ==
    /\ progressVisible' = TRUE
    /\ updateProgress(0)
    /\ submitDisabled' = TRUE
    /\ pointerEvents' = "none"

\* The guard of handleFormSubmission: TRUE when the submission is dropped.
SubmitRejected_noProcessingCheck == currentDocument = NoFile

SubmitRejected == isProcessing \/ currentDocument = NoFile

\* An id no running execution has.
FreeId(running) == CHOOSE i \in 1..(Cardinality(running) + 1) : \A e \in running : e.id # i

firstAwait_fetch == "fetch"

\* Where handleFormSubmission is first suspended: in the await of
\* simulateProcessingSteps() (line 174), which precedes fetch('/') (line 179).
firstAwait == "steps"

\* handleFormSubmission up to its first await: the guard, then isProcessing,
\* showProgress, the form data and the first 600 ms timer.
handleFormSubmission ==
    IF SubmitRejected
    THEN UNCHANGED <<scriptVars, formVars, flightVars>>
    ELSE /\ Cardinality(executions) + hideTimers < MaxSubmissions
         /\ isProcessing' = TRUE
         /\ showProgress
         /\ executions' = executions \cup
                {[id |-> FreeId(executions), pc |-> firstAwait, step |-> 0,
                  document |-> currentDocument]}
         /\ UNCHANGED <<currentDocument, currentSessionKey, hideTimers, asks, demos>>

\* The submit event of the form.
FormSubmit ==
    /\ lastEvent' = <<"submit">>
    /\ handleFormSubmission
    /\ noNotification
    /\ UNCHANGED <<uploadVars, resultVars, qaVars>>

\* hideProgress: sets the 1000 ms timer.
hideProgress == hideTimers' = hideTimers + 1

\* The finally block: isProcessing after it.
processingAfterFinally_stuck == isProcessing

processingAfterFinally == FALSE

finally(e) ==
    /\ isProcessing' = processingAfterFinally
    /\ hideProgress
    /\ executions' = executions \ {e}

\* The catch block.
catch(message) ==
    /\ showError(<<"Failed to process document: ", message>>)
    /\ errorState' = TRUE

\* One 600 ms timer of simulateProcessingSteps fires; after the last one the
\* function returns and the handler calls fetch.
StepTimer(e) ==
    /\ e.pc = "steps"
    /\ lastEvent' = <<"timer", "step">>
    /\ updateProgress(steps[e.step + 1].progress)
    /\ executions' = (executions \ {e}) \cup
            {IF e.step + 1 = Len(steps)
             THEN [e EXCEPT !.pc = "fetch", !.step = e.step + 1]
             ELSE [e EXCEPT !.step = e.step + 1]}
    /\ noNotification
    /\ UNCHANGED <<scriptVars, submitDisabled, pointerEvents, progressVisible,
                   uploadVars, resultVars, qaVars, hideTimers, asks, demos>>

(* --------------------------- results display -------------------------- *)

createAccordionItem(clause, index) ==
    [title       |-> IF clause.title # <<>> THEN clause.title ELSE <<"Clause ", index + 1>>,
     original    |-> clause.original,
     simplified  |-> clause.simplified,
     explanation |-> clause.explanation]

\* index is 0-based in the script, i is 1-based here.
generateAccordion(clauses) ==
    [i \in 1..Len(clauses) |-> createAccordionItem(clauses[i], i - 1)]

displayResults_keepHistory(data) ==
    /\ resultsVisible' = TRUE
    /\ summaryContent' = data.summary
    /\ clauseAccordion' =
            IF Len(data.clauses) > 0
            THEN [items |-> generateAccordion(data.clauses), placeholder |-> FALSE]
            ELSE [items |-> <<>>, placeholder |-> TRUE]
    /\ activeHeaders' = {}
    /\ qaHistory' = qaHistory

\* displayResults(data): the three containers are emptied, then filled.
displayResults(data) ==
    /\ resultsVisible' = TRUE
    /\ summaryContent' = data.summary
    /\ clauseAccordion' =
            IF Len(data.clauses) > 0
            THEN [items |-> generateAccordion(data.clauses), placeholder |-> FALSE]
            ELSE [items |-> <<>>, placeholder |-> TRUE]
    /\ activeHeaders' = {}
    /\ qaHistory' = <<>>

toggleAccordion_keepOthers(i) ==
    /\ i \in 1..Len(clauseAccordion.items)
    /\ lastEvent' = <<"click", "accordion", i>>
    /\ activeHeaders' = IF i \in activeHeaders THEN activeHeaders \ {i} ELSE activeHeaders \cup {i}
    /\ noNotification
    /\ UNCHANGED <<scriptVars, formVars, uploadVars, resultsVisible, summaryContent,
                   clauseAccordion, qaVars, flightVars>>

\* A click on the header of accordion item i.
toggleAccordion(i) ==
    /\ i \in 1..Len(clauseAccordion.items)
    /\ lastEvent' = <<"click", "accordion", i>>
    /\ LET isActive == i \in activeHeaders
           othersClosed == activeHeaders \cap {i}
       IN  activeHeaders' = IF isActive THEN othersClosed \ {i} ELSE othersClosed \cup {i}
    /\ noNotification
    /\ UNCHANGED <<scriptVars, formVars, uploadVars, resultsVisible, summaryContent,
                   clauseAccordion, qaVars, flightVars>>

(* ---------------------- the analyze request settles ------------------- *)

\* Lines 191-193: the key after a 2xx reply with body result.
storedSessionKey_always(result) == result.session_key

storedSessionKey(result) ==
    IF result.session_key # NULL THEN result.session_key ELSE currentSessionKey

\* fetch('/') settles: rejected (network error), or fulfilled with a 2xx
\* or a non-2xx response whose body is then read.
FetchSettles(e, outcome) ==
    /\ e.pc = "fetch"
    /\ lastEvent' = <<"fetch /", outcome>>
    /\ IF outcome = "network error"
       THEN /\ catch("Failed to fetch")
            /\ finally(e)
            /\ UNCHANGED <<currentDocument, currentSessionKey>>
       ELSE /\ executions' = (executions \ {e}) \cup
                    {[e EXCEPT !.pc = IF outcome = "ok" THEN "json ok" ELSE "json error"]}
            /\ noNotification
            /\ UNCHANGED <<scriptVars, errorState, hideTimers>>
    /\ UNCHANGED <<formVars, selectedFileShown, successState, resultVars, qaVars, asks, demos>>

\* response.json() of a 2xx reply settles with the parsed body.
AnalyzeSucceeds(e, result) ==
    /\ e.pc = "json ok"
    /\ lastEvent' = <<"json /", "ok", result>>
    /\ currentSessionKey' = storedSessionKey(result)
    /\ displayResults(result)
    /\ finally(e)
    /\ noNotification
    /\ UNCHANGED <<currentDocument, formVars, uploadVars, questionInput, askDisabled, asks, demos>>

errorMessage_generic(data) == "Server error: 500"

\* The error message of a non-2xx reply with body data (line 198).
errorMessage(data) ==
    IF data.error # NULL THEN data.error ELSE "Server error: 500"

\* response.json() settles and the handler throws: the body of a 2xx reply
\* is not JSON, or the reply is non-2xx (its body parsed, or replaced by
\* {error: 'Unknown error'} when it is not JSON).
AnalyzeFails(e, reply) ==
    /\ \/ e.pc = "json ok" /\ reply.outcome = "ok"
       \/ e.pc = "json error" /\ reply.outcome = "not ok"
    /\ lastEvent' = <<"json /", "error", reply>>
    /\ catch(IF reply.outcome = "ok"
             THEN "Unexpected token"
             ELSE errorMessage(errorData(reply)))
    /\ finally(e)
    /\ UNCHANGED <<currentDocument, currentSessionKey, formVars, selectedFileShown,
                   successState, resultVars, qaVars, asks, demos>>

HideProgressTimer_enableAlways ==
    /\ hideTimers > 0
    /\ lastEvent' = <<"timer", "hideProgress">>
    /\ hideTimers' = hideTimers - 1
    /\ progressVisible' = FALSE
    /\ enableSubmitButton
    /\ pointerEvents' = "auto"
    /\ noNotification
    /\ UNCHANGED <<scriptVars, progressWidth, uploadVars, resultVars, qaVars,
                   executions, asks, demos>>

\* The 1000 ms timer of hideProgress fires.
HideProgressTimer ==
    /\ hideTimers > 0
    /\ lastEvent' = <<"timer", "hideProgress">>
    /\ hideTimers' = hideTimers - 1
    /\ progressVisible' = FALSE
    /\ IF currentDocument # NoFile THEN enableSubmitButton ELSE UNCHANGED submitDisabled
    /\ pointerEvents' = "auto"
    /\ noNotification
    /\ UNCHANGED <<scriptVars, progressWidth, uploadVars, resultVars, qaVars,
                   executions, asks, demos>>

(* --------------------------------- Q&A -------------------------------- *)

\* handleQuestionInput, run with the question box holding text.
askDisabledFor(text) == ~(Len(trim(text)) > 0 /\ currentSessionKey # NULL)

\* The input event of the question box: the user changes its text.
handleQuestionInput(text) ==
    /\ text # questionInput
    /\ lastEvent' = <<"input", text>>
    /\ questionInput' = text
    /\ askDisabled' = askDisabledFor(text)
    /\ noNotification
    /\ UNCHANGED <<scriptVars, formVars, uploadVars, resultVars, qaHistory, flightVars>>

addQuestionToHistory(question, answer) ==
    qaHistory' = Append(qaHistory, [question |-> question, answer |-> answer, loading |-> TRUE])

updateLatestAnswer_first(answer) ==
    IF qaHistory = <<>>
    THEN qaHistory
    ELSE [qaHistory EXCEPT ![1] = [@ EXCEPT !.answer = answer, !.loading = FALSE]]

\* The history after updateLatestAnswer(answer).
updateLatestAnswer(answer) ==
    IF qaHistory = <<>>
    THEN qaHistory
    ELSE [qaHistory EXCEPT ![Len(qaHistory)] = [@ EXCEPT !.answer = answer, !.loading = FALSE]]

\* The guard of handleQuestionSubmit: TRUE when the question is dropped.
QuestionRejected_noKeyCheck == trim(questionInput) = <<>>

QuestionRejected == trim(questionInput) = <<>> \/ currentSessionKey = NULL

\* handleQuestionSubmit up to its await of fetch('/ask').
handleQuestionSubmit ==
    IF QuestionRejected
    THEN /\ IF currentSessionKey = NULL THEN showError(UploadFirstMessage) ELSE noNotification
         /\ UNCHANGED <<qaVars, asks>>
    ELSE /\ Len(qaHistory) < MaxQuestions
         /\ Cardinality(asks) < MaxQuestions
         /\ addQuestionToHistory(trim(questionInput), Thinking)
         /\ questionInput' = <<>>
         /\ askDisabled' = askDisabledFor(<<>>)
         /\ asks' = asks \cup {[id |-> FreeId(asks),
                               question |-> trim(questionInput),
                               session_key |-> currentSessionKey]}
         /\ noNotification

\* A click on the ask button; a disabled button takes no click.
AskQuestionClick ==
    /\ ~askDisabled
    /\ lastEvent' = <<"click", "askQuestion">>
    /\ handleQuestionSubmit
    /\ UNCHANGED <<scriptVars, formVars, uploadVars, resultVars, executions, hideTimers, demos>>

\* Enter, without Shift, in the question box.
QuestionKeypressEnter ==
    /\ lastEvent' = <<"keypress", "Enter">>
    /\ handleQuestionSubmit
    /\ UNCHANGED <<scriptVars, formVars, uploadVars, resultVars, executions, hideTimers, demos>>

\* The error message of a non-2xx reply of /ask with body errorData (line 430).
askErrorMessage(data) ==
    IF data.error # NULL THEN data.error ELSE "Failed to get answer"

\* fetch('/ask') is fulfilled with a 2xx reply and response.json() with its
\* parsed body.  Between the two awaits the handler changes nothing, so the
\* two continuations are one step here.
AskSucceeds(a) ==
    /\ lastEvent' = <<"fetch /ask", "ok">>
    /\ qaHistory' = updateLatestAnswer(AnswerTo(a.question))
    /\ asks' = asks \ {a}
    /\ noNotification
    /\ UNCHANGED <<scriptVars, formVars, uploadVars, resultVars, questionInput, askDisabled,
                   executions, hideTimers, demos>>

\* fetch('/ask') or response.json() settles and the handler's catch block runs.
AskFails(a, reply) ==
    /\ lastEvent' = <<"fetch /ask", "error", reply>>
    /\ LET message == CASE reply.outcome = "network error" -> "Failed to fetch"
                         [] reply.outcome = "ok" -> "Unexpected token"
                         [] reply.outcome = "not ok" -> askErrorMessage(errorData(reply))
       IN  qaHistory' = updateLatestAnswer(<<"Sorry, I couldn't process your question: ", message>>)
    /\ asks' = asks \ {a}
    /\ noNotification
    /\ UNCHANGED <<scriptVars, formVars, uploadVars, resultVars, questionInput, askDisabled,
                   executions, hideTimers, demos>>

(* -------------------------------- demo -------------------------------- *)

\* loadDemoDocument up to the fetch of /demo.
loadDemoDocument ==
    /\ demos < MaxDemos
    /\ currentSessionKey' = "demo_session"
    /\ demos' = demos + 1

\* The /demo promise chain settles with a body, and the results are shown.
DemoSucceeds(data) ==
    /\ demos > 0
    /\ lastEvent' = <<"fetch /demo", "ok", data>>
    /\ demos' = demos - 1
    /\ displayResults(data)
    /\ showSuccess(<<"Demo document loaded successfully!">>)
    /\ UNCHANGED <<scriptVars, formVars, uploadVars, questionInput, askDisabled,
                   executions, hideTimers, asks>>

\* The /demo promise chain rejects: a network error, or a body that is not JSON.
DemoFails ==
    /\ demos > 0
    /\ lastEvent' = <<"fetch /demo", "error">>
    /\ demos' = demos - 1
    /\ showError(<<"Failed to load demo document">>)
    /\ UNCHANGED <<scriptVars, formVars, uploadVars, resultVars, qaVars,
                   executions, hideTimers, asks>>

(* -------------------------- keyboard shortcuts ------------------------ *)

KeydownEscape ==
    IF currentDocument # NoFile
    THEN /\ lastEvent' = <<"keydown", "Escape", "clearSelectedFile">>
         /\ clearSelectedFile
         /\ noNotification
         /\ UNCHANGED <<isProcessing, pointerEvents, progressVisible, progressWidth,
                        resultVars, qaVars, flightVars>>
    ELSE /\ lastEvent' = <<"keydown", "Escape", "ignored">>
         /\ noNotification
         /\ UNCHANGED <<scriptVars, formVars, uploadVars, resultVars, qaVars, flightVars>>

\* Ctrl/Cmd+Enter dispatches a submit event, whose handler runs at once.
KeydownCtrlEnter ==
    IF currentDocument # NoFile /\ ~isProcessing
    THEN /\ lastEvent' = <<"keydown", "Ctrl+Enter", "submit">>
         /\ handleFormSubmission
         /\ noNotification
         /\ UNCHANGED <<uploadVars, resultVars, qaVars>>
    ELSE /\ lastEvent' = <<"keydown", "Ctrl+Enter", "ignored">>
         /\ noNotification
         /\ UNCHANGED <<scriptVars, formVars, uploadVars, resultVars, qaVars, flightVars>>

KeydownCtrlShiftD ==
    /\ lastEvent' = <<"keydown", "Ctrl+Shift+D", "loadDemoDocument">>
    /\ loadDemoDocument
    /\ noNotification
    /\ UNCHANGED <<currentDocument, isProcessing, formVars, uploadVars, resultVars, qaVars,
                   executions, hideTimers, asks>>

(* --------------------------- the event loop --------------------------- *)

Outcomes == { "ok", "not ok", "network error" }

\* Every task of the page.  The specifications checked below each take the
\* tasks of one workflow: the two workflows share currentSessionKey, which
\* the question box only reads, and qaHistory, which displayResults clears.
Next ==
    \/ \E file \in Files \cup {NoFile} : handleFileSelection(file)
    \/ \E file \in Files \cup {NoFile} : handleFileDrop(file)
    \/ RemoveFileClick
    \/ FormSubmit
    \/ \E e \in executions : StepTimer(e)
    \/ \E e \in executions, outcome \in Outcomes : FetchSettles(e, outcome)
    \/ \E e \in executions, result \in OkBodies : AnalyzeSucceeds(e, result)
    \/ \E e \in executions, reply \in FailedReplies : AnalyzeFails(e, reply)
    \/ HideProgressTimer
    \/ \E i \in 1..2 : toggleAccordion(i)
    \/ \E text \in QuestionTexts : handleQuestionInput(text)
    \/ AskQuestionClick
    \/ QuestionKeypressEnter
    \/ \E a \in asks : AskSucceeds(a)
    \/ \E a \in asks, reply \in FailedReplies : AskFails(a, reply)
    \/ KeydownCtrlShiftD
    \/ \E data \in OkBodies : DemoSucceeds(data)
    \/ DemoFails
    \/ KeydownEscape
    \/ KeydownCtrlEnter

Spec == Init /\ [][Next]_vars


\* The upload and analyze workflow: every event of the page but those of the
\* question box and the accordion, which write only qaVars, asks and
\* activeHeaders and so leave every variable of this workflow as it is.
NextUpload ==
    \/ \E file \in Files \cup {NoFile} : handleFileSelection(file)
    \/ \E file \in Files \cup {NoFile} : handleFileDrop(file)
    \/ RemoveFileClick
    \/ FormSubmit
    \/ \E e \in executions : StepTimer(e)
    \/ \E e \in executions, outcome \in Outcomes : FetchSettles(e, outcome)
    \/ \E e \in executions, result \in OkBodies : AnalyzeSucceeds(e, result)
    \/ \E e \in executions, reply \in FailedReplies : AnalyzeFails(e, reply)
    \/ HideProgressTimer
    \/ KeydownCtrlShiftD
    \/ \E data \in OkBodies : DemoSucceeds(data)
    \/ DemoFails
    \/ KeydownEscape
    \/ KeydownCtrlEnter

SpecUpload == Init /\ [][NextUpload]_vars

\* The body /demo serves in the question workflow.
demoBody == [session_key |-> NULL, summary |-> "S", clauses |-> <<clauseTerm, clauseFee>>]

\* The question workflow: the events of the question box, with the session
\* key set by loadDemoDocument and cleared by the remove button, and the
\* history cleared by the display of the demo results.
NextQA ==
    \/ RemoveFileClick
    \/ \E text \in QuestionTexts : handleQuestionInput(text)
    \/ AskQuestionClick
    \/ QuestionKeypressEnter
    \/ \E a \in asks : AskSucceeds(a)
    \/ \E a \in asks, reply \in FailedReplies : AskFails(a, reply)
    \/ KeydownCtrlShiftD
    \/ DemoSucceeds(demoBody)
    \/ DemoFails

SpecQA == Init /\ [][NextQA]_vars


\* File validation alone: every file of AllFiles offered by browse and by drop.
NextFiles ==
    \/ \E file \in AllFiles : handleFileSelection(file)
    \/ \E file \in AllFiles : handleFileDrop(file)

SpecFiles == Init /\ [][NextFiles]_vars

\* The upload workflow with the scheduling the browser guarantees: a timer
\* that was set fires, a fetch and a body read that were started settle.
\* The results section: /demo replies rendered by displayResults, clicks on
\* the accordion headers, and questions asked and answered in between.
NextResults ==
    \/ KeydownCtrlShiftD
    \/ \E data \in OkBodies : data.session_key = NULL /\ DemoSucceeds(data)
    \/ \E i \in 1..2 : toggleAccordion(i)
    \/ handleQuestionInput(<<"q">>)
    \/ QuestionKeypressEnter
    \/ \E a \in asks : AskSucceeds(a)

SpecResults == Init /\ [][NextResults]_vars

\* Two different questions, asked and settled in any order, with the session
\* key set by loadDemoDocument and the history cleared by the display of the
\* demo results.
NextAsk ==
    \/ \E text \in {<<"q">>, <<"r">>} : handleQuestionInput(text)
    \/ QuestionKeypressEnter
    \/ \E a \in asks : AskSucceeds(a)
    \/ \E a \in asks, reply \in FailedReplies : AskFails(a, reply)
    \/ KeydownCtrlShiftD
    \/ DemoSucceeds(demoBody)

SpecAsk == Init /\ [][NextAsk]_vars

FairUpload ==
    /\ SpecUpload
    /\ WF_vars(\E e \in executions : StepTimer(e))
    /\ WF_vars(\E e \in executions, outcome \in Outcomes : FetchSettles(e, outcome))
    /\ WF_vars(\/ \E e \in executions, result \in OkBodies : AnalyzeSucceeds(e, result)
               \/ \E e \in executions, reply \in FailedReplies : AnalyzeFails(e, reply))
    /\ WF_vars(HideProgressTimer)

(* ------------------------------- claims ------------------------------- *)

\* The handler that ran last.
SubmitHandlerRan ==
    \/ lastEvent = <<"submit">>
    \/ /\ lastEvent[1] = "keydown" /\ lastEvent[2] = "Ctrl+Enter" /\ lastEvent[3] = "submit"

ClearRan ==
    \/ /\ lastEvent[1] = "click" /\ lastEvent[2] = "removeFile"
    \/ /\ lastEvent[1] = "keydown" /\ lastEvent[2] = "Escape" /\ lastEvent[3] = "clearSelectedFile"

FileOffered == lastEvent[1] \in {"change", "drop"} /\ lastEvent[2] # NoFile

QuestionSubmitRan ==
    \/ /\ lastEvent[1] = "click" /\ lastEvent[2] = "askQuestion"
    \/ /\ lastEvent[1] = "keypress" /\ lastEvent[2] = "Enter"

PostInFlight == { e \in executions : e.pc \in {"fetch", "json ok", "json error"} }

\* C1: at most one execution of handleFormSubmission is past its guard at any
\* time (and isProcessing is set while it is), so at most one POST to '/' is
\* in flight at any time.
C1_SingleFlight ==
    /\ Cardinality(executions) <= 1
    /\ Cardinality(PostInFlight) <= 1
    /\ executions # {} => isProcessing

\* A Ctrl/Cmd+Enter arrives while the POST is in flight, and is ignored.
C1_Witness ==
    /\ PostInFlight # {}
    /\ lastEvent = <<"keydown", "Ctrl+Enter", "ignored">>


\* C2, as stated: currentSessionKey is non-null only from a successful
\* analyze response, and it is absent whenever no document is selected and
\* after loadDemoDocument.
C2_KeyIffAnalyzed ==
    /\ currentSessionKey # NULL => currentSessionKey \in SessionKeys
    /\ currentDocument = NoFile => currentSessionKey = NULL
    /\ (lastEvent[1] = "keydown" /\ lastEvent[2] = "Ctrl+Shift+D") => currentSessionKey = NULL

\* C2, amended: currentSessionKey changes in three ways only.  A successful
\* analyze response that carries a session_key sets it to a server key,
\* loadDemoDocument sets it to 'demo_session', and clearSelectedFile sets it
\* to null, together with the document.
C2_KeyChanges ==
    [][currentSessionKey' # currentSessionKey =>
        \/ /\ currentSessionKey' \in SessionKeys
           /\ \E e \in executions : e.pc = "json ok" /\ e \notin executions'
           /\ resultsVisible'
        \/ /\ currentSessionKey' = "demo_session"
           /\ demos' = demos + 1
        \/ /\ currentSessionKey' = NULL
           /\ currentDocument' = NoFile]_vars

\* A successful analyze response has stored the key the server sent.
C2_Witness ==
    /\ lastEvent[1] = "json /"
    /\ lastEvent[2] = "ok"
    /\ currentSessionKey \in SessionKeys
    /\ currentDocument # NoFile

\* C3: handleFormSubmission invoked while isProcessing is true or no document
\* is selected sends no request and changes nothing of the script's state,
\* the form, the upload area, the results and the Q&A.
C3_GuardNoOp ==
    [][(SubmitHandlerRan' /\ (isProcessing \/ currentDocument = NoFile)) =>
        UNCHANGED <<scriptVars, formVars, uploadVars, resultVars, qaVars, flightVars>>]_vars

\* A submit event arrives after the simulated steps have begun.
C3_Witness ==
    /\ lastEvent = <<"submit">>
    /\ \E e \in executions : e.step > 0

\* C4: every submission that passes the guard returns to idle, whatever the
\* outcome: isProcessing, once true, becomes false again; and a submission
\* made while the page is idle with a document selected is accepted.
C4_ReturnsToIdle ==
    /\ isProcessing ~> ~isProcessing
    /\ [][(SubmitHandlerRan' /\ ~isProcessing /\ currentDocument # NoFile) =>
            (isProcessing' /\ \E e \in executions' \ executions : e.pc = "steps")]_vars

\* A submission has ended in the catch block and the page is idle again.
C4_Witness ==
    /\ lastEvent[1] \in {"json /", "fetch /"}
    /\ errorState
    /\ ~isProcessing
    /\ currentDocument # NoFile

\* C5: while isProcessing is true the submit button is disabled, the upload
\* area takes no pointer events and the progress indicator is visible.
C5_LockedWhileProcessing ==
    isProcessing => submitDisabled /\ pointerEvents = "none" /\ progressVisible

\* C6: after clearSelectedFile, run by the remove button or by Escape, no
\* document and no session key are held, the submit button is disabled and
\* the upload area is in neither its success nor its error state.
C6_ClearResets ==
    ClearRan =>
        /\ currentDocument = NoFile
        /\ currentSessionKey = NULL
        /\ submitDisabled
        /\ ~successState
        /\ ~errorState

\* The clear ran while an analyze request was in flight.
C6_Witness ==
    /\ ClearRan
    /\ PostInFlight # {}

\* C7: after a file of invalid type is offered, by the file input or by drop,
\* an error notification is shown, no document is selected and the submit
\* button is disabled.
C7_InvalidTypeResets ==
    (FileOffered /\ ~isValidFileType(lastEvent[2])) =>
        /\ notifications = <<[kind |-> "error", text |-> InvalidTypeMessage]>>
        /\ currentDocument = NoFile
        /\ submitDisabled

\* C8: offering a file of invalid type or submitting an empty question sends
\* no request and leaves the session key and the rendered result as they were.
C8_ValidationKeepsSession ==
    [][(\/ FileOffered' /\ ~isValidFileType(lastEvent'[2])
        \/ QuestionSubmitRan' /\ trim(questionInput) = <<>>) =>
        UNCHANGED <<currentSessionKey, resultVars, executions, asks, demos>>]_vars

\* The extension of a file name as C9 reads it: what follows the last dot,
\* and none when the name has no dot.
hasDot(name) == \E i \in 1..Len(name) : name[i] = "."

afterLastDot(name) ==
    LET i == CHOOSE k \in 1..Len(name) : name[k] = "." /\ \A j \in (k + 1)..Len(name) : name[j] # "."
    IN  SubSeq(name, i + 1, Len(name))

hasAllowedExtension(name) ==
    hasDot(name) /\ toLowerCase(afterLastDot(name)) \in allowedExtensions

\* C9: a file is accepted if and only if its MIME type is allowed or its
\* extension is one of pdf, doc, docx, txt; a name without a dot has no
\* extension.
C9_AcceptedIffTypeOrExtension ==
    FileOffered =>
        (currentDocument = lastEvent[2]
            <=> (lastEvent[2].type \in allowedTypes \/ hasAllowedExtension(lastEvent[2].name)))

\* C10: handleQuestionSubmit appends an exchange and sends the question only
\* when the trimmed question is non-empty and a session key is held; without
\* a key it shows the upload-first error and does nothing else; with a key
\* and an empty question it does nothing at all.  No other task of the event
\* loop sends a question or appends an exchange.
C10_QuestionGuard ==
    [][IF ~QuestionSubmitRan'
       THEN asks' \subseteq asks /\ Len(qaHistory') <= Len(qaHistory)
       ELSE
        IF currentSessionKey = NULL
        THEN /\ notifications' = <<[kind |-> "error", text |-> UploadFirstMessage]>>
             /\ UNCHANGED <<qaVars, asks, scriptVars>>
        ELSE IF trim(questionInput) = <<>>
        THEN /\ notifications' = <<>>
             /\ UNCHANGED <<qaVars, asks, scriptVars>>
        ELSE /\ notifications' = <<>>
             /\ Len(qaHistory') = Len(qaHistory) + 1
             /\ qaHistory'[Len(qaHistory')].question = trim(questionInput)
             /\ \E a \in asks' \ asks :
                    /\ asks' = asks \cup {a}
                    /\ a.question = trim(questionInput)
                    /\ a.session_key = currentSessionKey]_vars

\* A question with text was submitted with no session key, and refused.
C10_Witness ==
    /\ QuestionSubmitRan
    /\ trim(questionInput) # <<>>
    /\ currentSessionKey = NULL
    /\ notifications = <<[kind |-> "error", text |-> UploadFirstMessage]>>

\* C11: in every reachable state the ask button is enabled exactly when the
\* trimmed text of the question box is non-empty and a session key is held.
C11_AskButtonReactive ==
    ~askDisabled <=> (Len(trim(questionInput)) > 0 /\ currentSessionKey # NULL)

\* C12: when a 2xx reply of /ask arrives, the answer of the exchange appended
\* last becomes the answer the server sent for the settled request, and every
\* other exchange, and the question of the last one, stay as they were.
C12_LatestAnswerReplaced ==
    [][(lastEvent'[1] = "fetch /ask" /\ lastEvent'[2] = "ok") =>
        \E a \in asks \ asks' :
            /\ Len(qaHistory') = Len(qaHistory)
            /\ \A i \in 1..Len(qaHistory) :
                    IF i = Len(qaHistory)
                    THEN /\ qaHistory'[i].question = qaHistory[i].question
                         /\ qaHistory'[i].answer = AnswerTo(a.question)
                         /\ ~qaHistory'[i].loading
                    ELSE qaHistory'[i] = qaHistory[i]]_vars

\* An answer arrived with two exchanges in the history: the last one holds
\* an answer and the first one is untouched, still pending.
C12_Witness ==
    /\ lastEvent = <<"fetch /ask", "ok">>
    /\ Len(qaHistory) = 2
    /\ qaHistory[1].answer = Thinking
    /\ qaHistory[2].answer # Thinking

\* C13: in every reachable state at most one exchange of the history still
\* shows the pending placeholder 'Thinking...'.
C13_OnePendingExchange ==
    Cardinality({i \in 1..Len(qaHistory) : qaHistory[i].answer = Thinking}) <= 1

\* The task that ran last ended an analyze submission in its catch block.
AnalyzeFailureRan ==
    \/ lastEvent = <<"fetch /", "network error">>
    \/ lastEvent[1] = "json /" /\ lastEvent[2] = "error"

\* C14: every failure of an analyze submission (fetch rejected, a 2xx body
\* that is not JSON, a non-2xx reply) shows one error notification and puts
\* the upload area in its error state.  The notification carries the `error`
\* field of the reply when the reply is non-2xx JSON with that field, and a
\* generic message otherwise.  currentDocument, currentSessionKey, the
\* rendered result and the Q&A history stay as they were.
C14_AnalyzeFailureHandled ==
    [][AnalyzeFailureRan' =>
        /\ errorState'
        /\ UNCHANGED <<currentDocument, currentSessionKey, resultVars, qaHistory>>
        /\ \E reason \in {"Failed to fetch", "Unexpected token", "Unknown error",
                           "Server error: 500", "rate limited"} :
              /\ notifications' = <<[kind |-> "error",
                                     text |-> <<"Failed to process document: ", reason>>]>>
              /\ IF lastEvent'[1] = "fetch /"
                 THEN reason = "Failed to fetch"
                 ELSE LET reply == lastEvent'[3]
                      IN  IF reply.outcome = "not ok" /\ reply.json /\ reply.error # NULL
                          THEN reason = reply.error
                          ELSE reason \in {"Unexpected token", "Unknown error",
                                           "Server error: 500"}]_vars

\* A non-2xx reply with an `error` field arrived while an earlier analysis
\* was on the page: its message is shown, the result and the key are kept.
C14_Witness ==
    /\ AnalyzeFailureRan
    /\ lastEvent[1] = "json /"
    /\ lastEvent[3].error = "rate limited"
    /\ notifications = <<[kind |-> "error",
                          text |-> <<"Failed to process document: ", "rate limited">>]>>
    /\ errorState
    /\ resultsVisible
    /\ currentSessionKey \in SessionKeys

\* The task that ran last ended an /ask request in its catch block.
AskFailureRan == lastEvent[1] = "fetch /ask" /\ lastEvent[2] = "error"

\* C15: when an /ask request fails while an exchange is pending, the
\* placeholder of a pending exchange is replaced by the apology that embeds
\* the reason (the `error` field of a non-2xx JSON reply that has one, a
\* generic reason otherwise) and no other exchange changes; currentDocument,
\* currentSessionKey, isProcessing and the rendered result stay as they
\* were; and a question with text, submitted while a key is held, is still
\* appended and sent.
C15_AskFailureScoped ==
    [][/\ AskFailureRan' =>
            /\ UNCHANGED <<scriptVars, resultVars>>
            /\ (\E k \in 1..Len(qaHistory) : qaHistory[k].answer = Thinking) =>
                \E i \in 1..Len(qaHistory),
                   reason \in {"Failed to fetch", "Unexpected token", "Unknown error",
                               "Failed to get answer", "rate limited"} :
                    /\ LET reply == lastEvent'[3]
                       IN  IF reply.outcome = "not ok" /\ reply.json /\ reply.error # NULL
                           THEN reason = reply.error
                           ELSE reason # "rate limited"
                    /\ qaHistory[i].answer = Thinking
                    /\ qaHistory'[i].answer = <<"Sorry, I couldn't process your question: ", reason>>
                    /\ qaHistory'[i].question = qaHistory[i].question
                    /\ Len(qaHistory') = Len(qaHistory)
                    /\ \A j \in 1..Len(qaHistory) : j # i => qaHistory'[j] = qaHistory[j]
       /\ (QuestionSubmitRan' /\ trim(questionInput) # <<>> /\ currentSessionKey # NULL) =>
            /\ Len(qaHistory') = Len(qaHistory) + 1
            /\ asks' # asks /\ asks \subseteq asks']_vars

\* C16 as stated: a submission that passes the guard sends its POST / in the
\* same task, on entry to Submitting, whatever the simulated steps do.
C16_PostOnEntry ==
    [][(SubmitHandlerRan' /\ executions' # executions) =>
        \E e \in executions' \ executions : e.pc = "fetch"]_vars

\* C16, amended: the POST / of a submission is sent only when its six
\* simulated steps have run; until then the submission has sent nothing.
C16_PostAfterSteps ==
    \A e \in executions :
        IF e.step < 6 THEN e.pc = "steps" ELSE e.pc \in {"fetch", "json ok", "json error"}

\* The six steps have run and the POST / is in flight.
C16_Witness ==
    \E e \in executions : e.pc = "fetch" /\ e.step = 6

\* The task that ran last presented the outcome of an analyze submission:
\* the rendered result, or the error notification.
AnalyzeOutcomeRan ==
    \/ lastEvent = <<"fetch /", "network error">>
    \/ lastEvent[1] = "json /"

\* C17: in every submission the indicator advances one simulated step at a
\* time through 15, 35, 55, 75, 90, 100, starting from 0, and it is at 100
\* when the outcome of the submission (the rendered result or the error
\* notification) is presented, and stays there.
C17_ProgressBeforeOutcome ==
    [][/\ lastEvent' = <<"timer", "step">> =>
            \E i \in 1..6 :
                /\ progressWidth  = <<0, 15, 35, 55, 75, 90, 100>>[i]
                /\ progressWidth' = <<0, 15, 35, 55, 75, 90, 100>>[i + 1]
       /\ AnalyzeOutcomeRan' => (progressWidth = 100 /\ progressWidth' = 100)]_vars

\* A result was rendered by a submission, with the indicator at 100.
C17_Witness ==
    /\ lastEvent[1] = "json /"
    /\ lastEvent[2] = "ok"
    /\ resultsVisible
    /\ progressWidth = 100

\* C18: the task that ends a submission, whatever its outcome, clears
\* isProcessing at once and sets the 1000 ms timer, leaving the indicator
\* as it is; the task that runs when the timer fires hides the indicator,
\* sets pointer-events to auto whatever the state, and leaves the submit
\* button enabled exactly when a document is selected at that moment.
C18_ExitFromSubmitting ==
    [][/\ AnalyzeOutcomeRan' =>
            /\ ~isProcessing'
            /\ hideTimers' = hideTimers + 1
            /\ UNCHANGED <<progressVisible, pointerEvents, submitDisabled>>
       /\ lastEvent' = <<"timer", "hideProgress">> =>
            /\ hideTimers > 0
            /\ ~progressVisible'
            /\ pointerEvents' = "auto"
            /\ submitDisabled' <=> (currentDocument = NoFile)
            /\ UNCHANGED <<scriptVars>>]_vars

\* The timer fired after the document was removed during the submission:
\* the indicator is hidden, the drop area is usable, the button is disabled.
C18_Witness ==
    /\ lastEvent = <<"timer", "hideProgress">>
    /\ currentDocument = NoFile
    /\ submitDisabled
    /\ pointerEvents = "auto"
    /\ ~progressVisible
    /\ ~isProcessing

\* The task that ran last rendered a reply with displayResults.
DisplayRan == lastEvent[1] \in {"json /", "fetch /demo"} /\ lastEvent[2] = "ok"

\* C19: after displayResults(data) the results section shows what data says
\* and nothing else: the summary of data or none; one entry per clause of
\* data, in order, titled 'Clause N' when the clause has no title, or the
\* placeholder alone when data has no clauses; no entry open; an empty Q&A
\* history.
C19_ResultsFromDataAlone ==
    [][DisplayRan' =>
        LET data == lastEvent'[3]
        IN  /\ resultsVisible'
            /\ summaryContent' = data.summary
            /\ IF data.clauses = <<>>
               THEN clauseAccordion' = [items |-> <<>>, placeholder |-> TRUE]
               ELSE /\ ~clauseAccordion'.placeholder
                    /\ Len(clauseAccordion'.items) = Len(data.clauses)
                    /\ \A i \in 1..Len(data.clauses) :
                         LET item == clauseAccordion'.items[i]
                             clause == data.clauses[i]
                         IN  /\ item.title = IF clause.title # <<>>
                                             THEN clause.title
                                             ELSE <<"Clause ", i>>
                             /\ item.original = clause.original
                             /\ item.simplified = clause.simplified
                             /\ item.explanation = clause.explanation
            /\ activeHeaders' = {}
            /\ qaHistory' = <<>>]_vars

\* A reply without summary and clauses was rendered after a question had
\* been asked: the placeholder alone is shown and the history is empty.
C19_Witness ==
    /\ DisplayRan
    /\ asks # {}
    /\ lastEvent[3].summary = NULL
    /\ lastEvent[3].clauses = <<>>
    /\ summaryContent = NULL
    /\ clauseAccordion.placeholder
    /\ qaHistory = <<>>

\* C20: at most one accordion entry is open in every reachable state; a
\* click on the header of a closed entry j leaves exactly j open, and a click
\* on the header of the open entry leaves none open.
C20_AccordionOneOpen ==
    /\ [](/\ Cardinality(activeHeaders) <= 1
          /\ activeHeaders \subseteq 1..Len(clauseAccordion.items))
    /\ [][(lastEvent'[1] = "click" /\ lastEvent'[2] = "accordion") =>
            activeHeaders' = IF lastEvent'[3] \in activeHeaders THEN {} ELSE {lastEvent'[3]}]_vars

\* Entry 2 was opened by a click on its header.
C20_Witness ==
    /\ lastEvent = <<"click", "accordion", 2>>
    /\ activeHeaders = {2}

\* The task that ran last settled an /ask request, with an answer or an error.
AskSettledRan == lastEvent[1] = "fetch /ask"

\* C21: whatever the order of questions, /ask replies and displays of new
\* results, the task that settles an /ask request writes its answer or its
\* error message only into an exchange that holds the question of that
\* request, never into the exchange of a different question.
C21_AnswerAttribution ==
    [][AskSettledRan' =>
        \A a \in asks \ asks' :
            \A i \in 1..Len(qaHistory) :
                (i <= Len(qaHistory') /\ qaHistory'[i] # qaHistory[i])
                    => qaHistory[i].question = a.question]_vars

\* C22: once every /ask request has settled, no exchange of the history
\* still shows the pending placeholder: each exchange that was not removed
\* by a display of new results has had it replaced by an answer or an error
\* message.
C22_NoExchangeLeftPending ==
    asks = {} => \A i \in 1..Len(qaHistory) : qaHistory[i].answer # Thinking

\* C23: a clear is not undone by a response that was in flight.  While no
\* document is selected, every running submission was started before the
\* clear that removed the document, so the task that handles its 2xx reply
\* leaves currentSessionKey as the clear left it.
C23_ClearNotUndone ==
    [][(lastEvent'[1] = "json /" /\ lastEvent'[2] = "ok" /\ currentDocument = NoFile)
        => currentSessionKey' = currentSessionKey]_vars

\* C24: the error state of the upload area reflects the latest analyze
\* outcome: the task that completes a submission successfully leaves the
\* upload area out of the error state, and so does the task that accepts a
\* newly selected or dropped valid file.
C24_ErrorStateIsLatestOutcome ==
    [][/\ (lastEvent'[1] = "json /" /\ lastEvent'[2] = "ok") => ~errorState'
       /\ (FileOffered' /\ currentDocument' = lastEvent'[2]) => ~errorState']_vars

====
